---- MODULE Spec2Model ----
(***************************************************************************)
(* Model of the notebook 2/gs-heisenberg.ipynb: a linear script of code    *)
(* cells that configures a Heisenberg chain, trains five variational       *)
(* ansaetze one after another with the VMC driver, reloads each run's log  *)
(* and plots it.                                                           *)
(*                                                                         *)
(* The notebook's statements are kept as a table (Program); one action     *)
(* executes one kind of statement.  The driver call gs.run(...) is opened  *)
(* into its iterations (forward/backward pass, logging, parameter update)  *)
(* and its final flush, as the driver the notebook calls performs them.    *)
(* Line numbers are lines of src/2/gs-heisenberg.ipynb.                    *)
(*                                                                         *)
(* Two specifications share the statement actions.  Spec takes a run       *)
(* iteration by iteration; SpecCells takes each gs.run call as one step    *)
(* (the same loop body, applied n_iter times, or up to the step at which   *)
(* an exception stops the run).  RunStepsAgree relates the two.  The cells *)
(* execute top to bottom and execution stops at the first unhandled        *)
(* exception; the chain length is scaled down to 2 * HalfL.  A third       *)
(* specification, SpecEval, applies the notebook's pure functions (the     *)
(* ansatz classes, the parameter counts) to inputs drawn from bounded      *)
(* sets; numbers are kept there as the expressions the code evaluates.     *)
(***************************************************************************)
EXTENDS Integers, Sequences, FiniteSets, TLC

VARIABLES
    pc,        \* index in Program of the next statement to execute
    status,    \* "running" | "failed" (an unhandled exception stopped the script)
    environ,   \* os.environ["JAX_PLATFORM_NAME"], or "unset"
    modules,   \* names of the modules imported so far
    platform,  \* platform the numerical framework bound when it was loaded
    classes,   \* classes defined by the notebook so far
    ns,        \* global namespace: variable name -> object id (0 = unbound)
    heap,      \* objects constructed so far, indexed by object id
    sigma,     \* configuration held by the sampler state of the current vs
    theta,     \* number of updates applied to the parameters of the current vs
    drv,       \* state of the gs.run call in progress
    runs,      \* one record per gs.run call made so far
    logmem,    \* in-memory history of each run's logger, by output name
    files,     \* file system: file name -> serialized log
    json,      \* data variables bound by json.load: name -> parsed content
    series,    \* series variables (iters_X, energy_X): name -> list
    plots,     \* figures drawn so far
    ev         \* an evaluation of one of the notebook's pure functions

vars == <<pc, status, environ, modules, platform, classes, ns, heap, sigma,
          theta, drv, runs, logmem, files, json, series, plots, ev>>

----------------------------------------------------------------------------
(* Bounds of the model *)

\* Half the chain length used by the model (the notebook uses L = 22).
HalfL == 1

\* Exchange proposals made by one sampling call of the model.
SweepSize == 1

----------------------------------------------------------------------------
(* Physics configuration: cells at lines 130-155 *)

\* L = 22 in the notebook; even, so that total_sz = 0 is satisfiable.
L == 2 * HalfL

Sites == 1..L

\* hi = nk.hilbert.Spin(s=0.5, total_sz=0, ...): configured total
total_sz == 0

RECURSIVE SumSeq(_)
SumSeq(s) == IF s = <<>> THEN 0 ELSE Head(s) + SumSeq(Tail(s))

\* local states of a spin-1/2 site, in the framework's convention
LocalStates == {-1, 1}

\* the constrained Hilbert space: all spin assignments with the fixed total
HilbertStates == {s \in [Sites -> LocalStates] : SumSeq(s) = total_sz}

\* g = nk.graph.Hypercube(length=L, n_dim=1, pbc=True): nearest neighbours,
\* periodic
Edges == {<<i, (i % L) + 1>> : i \in Sites}

\* a Metropolis move that flips one site (the local rule, not the exchange rule)
ExchangeFlipsOneSite(s, i, j) == [s EXCEPT ![i] = -s[i]]

\* the exchange move: swap the values of sites i and j
Exchange(s, i, j) == [s EXCEPT ![i] = s[j], ![j] = s[i]]

\* one Metropolis step: a proposal on an edge, accepted or rejected
MetropolisStep(s) == {s} \cup {Exchange(s, e[1], e[2]) : e \in Edges}

\* the configurations a chain started in S can hold after k Metropolis steps
\* (once a step adds nothing, further steps add nothing either)
RECURSIVE SampleChain(_, _)
SampleChain(S, k) ==
    LET T == UNION {MetropolisStep(s) : s \in S}
    IN  IF k = 0 \/ T = S THEN S ELSE SampleChain(T, k - 1)

\* initial configurations of a sampler state built on hi
random_state == HilbertStates

----------------------------------------------------------------------------
(* The notebook as a table of statements *)

\* One statement: the code cell it belongs to (1..19, counting code cells),
\* its line, its kind, the name it binds or acts on, a class / text argument,
\* the names it reads, and its numeric arguments.
S(cell, line, op, var, cls, refs, num) ==
    [cell |-> cell, line |-> line, op |-> op, var |-> var, cls |-> cls,
     refs |-> refs, num |-> num]

\* line 53: %pip install --quiet netket (code cell 0)
InstallCell ==
    << S(0, 53, "magic", "pip", "install --quiet netket", <<>>, <<>>) >>

\* lines 76-77
EnvCell ==
    << S(1, 76, "import", "os", "", <<>>, <<>>),
       S(1, 77, "setenv", "JAX_PLATFORM_NAME", "cpu", <<>>, <<>>) >>

\* lines 97-106
ImportCell ==
    << S(2, 98, "import", "netket", "", <<>>, <<>>),
       S(2, 101, "import", "json", "", <<>>, <<>>),
       S(2, 104, "import", "numpy", "", <<>>, <<>>),
       S(2, 105, "import", "matplotlib", "", <<>>, <<>>),
       S(2, 106, "import", "time", "", <<>>, <<>>) >>

\* lines 129-203: lattice, Hilbert space, Hamiltonian, exact diagonalization
ConfigCells ==
    << S(3, 131, "new", "g", "Hypercube", <<>>, <<L>>),
       S(4, 155, "new", "hi", "Spin", <<"g">>, <<total_sz>>),
       S(5, 177, "new", "ha", "Heisenberg", <<"hi", "g">>, <<>>),
       S(6, 201, "new", "exact_gs_energy", "lanczos_ed", <<"ha">>, <<>>),
       S(6, 203, "expr", "", "print", <<"exact_gs_energy">>, <<>>) >>

\* lines 240-339: the Jastrow ansatz, its run, its plot.
\* Learning rates and diagonal shifts are in hundredths.
JastrowCells ==
    << S(7, 240, "import", "flax", "", <<>>, <<>>),
       S(7, 242, "import", "jax", "", <<>>, <<>>),
       S(7, 244, "classdef", "Jastrow", "", <<>>, <<>>),
       S(8, 277, "new", "ma", "Jastrow", <<"hi">>, <<>>),
       S(8, 278, "expr", "", "print", <<"ma">>, <<>>),
       S(9, 290, "new", "sa", "MetropolisExchange", <<"hi", "g">>, <<>>),
       S(9, 293, "new", "op", "Sgd", <<>>, <<1>>),
       S(9, 296, "new", "sr", "SR", <<>>, <<10>>),
       S(9, 299, "new", "vs", "MCState", <<"sa", "ma">>, <<1008>>),
       S(9, 302, "new", "gs", "VMC", <<"ha", "op", "sr", "vs">>, <<>>),
       S(9, 308, "expr", "", "time", <<>>, <<>>),
       S(9, 309, "run", "gs", "Jastrow", <<>>, <<300>>),
       S(9, 310, "expr", "", "time", <<>>, <<>>),
       S(9, 312, "expr", "", "print", <<"vs">>, <<>>),
       S(10, 326, "load", "data_Jastrow", "Jastrow.log", <<>>, <<>>),
       S(10, 328, "get", "iters_Jastrow", "iters", <<"data_Jastrow">>, <<>>),
       S(10, 329, "get", "energy_Jastrow", "Mean.real", <<"data_Jastrow">>, <<>>),
       S(10, 331, "plot", "", "", <<"iters_Jastrow", "energy_Jastrow">>, <<>>) >>

\* lines 376-449: the RBM ansatz, its run, its plot
RBMCells ==
    << S(11, 377, "new", "ma", "RBM", <<>>, <<1>>),
       S(12, 398, "new", "sa", "MetropolisExchange", <<"hi", "g">>, <<>>),
       S(12, 401, "new", "op", "Sgd", <<>>, <<5>>),
       S(12, 404, "new", "sr", "SR", <<>>, <<10>>),
       S(12, 407, "new", "vs", "MCState", <<"sa", "ma">>, <<1008>>),
       S(12, 410, "new", "gs", "VMC", <<"ha", "op", "sr", "vs">>, <<>>),
       S(12, 416, "expr", "", "time", <<>>, <<>>),
       S(12, 417, "run", "gs", "RBM", <<>>, <<600>>),
       S(12, 418, "expr", "", "time", <<>>, <<>>),
       S(12, 420, "expr", "", "print", <<"vs">>, <<>>),
       S(13, 434, "load", "data", "RBM.log", <<>>, <<>>),
       S(13, 437, "get", "iters_RBM", "iters", <<"data">>, <<>>),
       S(13, 438, "get", "energy_RBM", "Mean", <<"data">>, <<>>),
       S(13, 440, "plot", "", "",
         <<"iters_Jastrow", "energy_Jastrow", "iters_RBM", "energy_RBM">>,
         <<>>) >>

\* lines 482-551: the symmetric RBM ansatz, its run, its plot
RBMSymmCells ==
    << S(14, 483, "new", "ma", "RBMSymm", <<"g">>, <<1>>),
       S(14, 488, "new", "sa", "MetropolisExchange", <<"hi", "g">>, <<>>),
       S(14, 491, "new", "op", "Sgd", <<>>, <<1>>),
       S(14, 494, "new", "sr", "SR", <<>>, <<10>>),
       S(14, 497, "new", "vs", "MCState", <<"sa", "ma">>, <<1008>>),
       S(14, 500, "new", "gs", "VMC", <<"ha", "op", "sr", "vs">>, <<>>),
       S(14, 506, "expr", "", "time", <<>>, <<>>),
       S(14, 507, "run", "gs", "RBMSymmetric", <<>>, <<300>>),
       S(14, 508, "expr", "", "time", <<>>, <<>>),
       S(14, 510, "expr", "", "print", <<"vs">>, <<>>),
       S(15, 533, "load", "data", "RBMSymmetric.log", <<>>, <<>>),
       S(15, 536, "get", "iters_symRBM", "iters", <<"data">>, <<>>),
       S(15, 537, "get", "energy_symRBM", "Mean", <<"data">>, <<>>),
       S(15, 539, "plot", "", "",
         <<"iters_Jastrow", "energy_Jastrow", "iters_RBM", "energy_RBM",
           "iters_symRBM", "energy_symRBM">>, <<>>) >>

\* lines 584-649: the one-layer feed-forward network, its run, its plot
FFCells ==
    << S(16, 584, "classdef", "Model", "", <<>>, <<>>),
       S(16, 594, "new", "ffnn", "Model", <<"hi">>, <<>>),
       S(16, 596, "new", "sa", "MetropolisExchange", <<"hi", "g">>, <<>>),
       S(16, 599, "new", "vs", "MCState", <<"sa", "ffnn">>, <<1008>>),
       S(16, 601, "new", "opt", "Sgd", <<>>, <<5>>),
       S(16, 604, "new", "sr", "SR", <<>>, <<10>>),
       S(16, 607, "new", "gs", "VMC", <<"ha", "op", "sr", "vs">>, <<>>),
       S(16, 614, "expr", "", "time", <<>>, <<>>),
       S(16, 615, "run", "gs", "FF", <<>>, <<300>>),
       S(16, 616, "expr", "", "time", <<>>, <<>>),
       S(16, 618, "expr", "", "print", <<"vs">>, <<>>),
       S(17, 632, "load", "data", "FF.log", <<>>, <<>>),
       S(17, 635, "get", "iters_FF", "iters", <<"data">>, <<>>),
       S(17, 636, "get", "energy_FF", "Mean.real", <<"data">>, <<>>),
       S(17, 638, "plot", "", "",
         <<"iters_Jastrow", "energy_Jastrow", "iters_RBM", "energy_RBM",
           "iters_symRBM", "energy_symRBM", "iters_FF", "energy_FF">>,
         <<>>) >>

\* lines 669-737: the two-layer feed-forward network, the last run, its plot
FF2Cells ==
    << S(18, 669, "classdef", "Model2", "", <<>>, <<>>),
       S(18, 682, "new", "ffnn2", "Model2", <<"hi">>, <<>>),
       S(18, 685, "new", "vs", "MCState", <<"sa", "ffnn">>, <<1008>>),
       S(18, 687, "new", "opt", "Sgd", <<>>, <<5>>),
       S(18, 690, "new", "sr", "SR", <<>>, <<10>>),
       S(18, 693, "new", "gs", "VMC", <<"ha", "op", "sr", "vs">>, <<>>),
       S(18, 700, "expr", "", "time", <<>>, <<>>),
       S(18, 701, "run", "gs", "FF2", <<>>, <<600>>),
       S(18, 702, "expr", "", "time", <<>>, <<>>),
       S(18, 705, "expr", "", "print", <<"vs">>, <<>>),
       S(19, 719, "load", "data", "FF2.log", <<>>, <<>>),
       S(19, 722, "get", "iters_FF_morelayers", "iters", <<"data">>, <<>>),
       S(19, 723, "get", "energy_FF_morelayers", "Mean.real", <<"data">>, <<>>),
       S(19, 725, "plot", "", "",
         <<"iters_FF", "energy_FF", "iters_FF_morelayers",
           "energy_FF_morelayers">>, <<>>) >>

\* a notebook whose RBM section comes before its Jastrow section
ProgramRBMFirst ==
    InstallCell \o EnvCell \o ImportCell \o ConfigCells \o RBMCells \o JastrowCells
        \o RBMSymmCells \o FFCells \o FF2Cells

\* a notebook that loads the framework before choosing the platform
ProgramImportFirst ==
    InstallCell \o ImportCell \o EnvCell \o ConfigCells \o JastrowCells \o RBMCells
        \o RBMSymmCells \o FFCells \o FF2Cells

\* a notebook whose last driver is given the optimizer built in its own cell
ProgramFF2OwnOptimizer ==
    InstallCell \o EnvCell \o ImportCell \o ConfigCells \o JastrowCells \o RBMCells
        \o RBMSymmCells \o FFCells
        \o [FF2Cells EXCEPT ![6] = S(18, 693, "new", "gs", "VMC",
                                     <<"ha", "opt", "sr", "vs">>, <<>>)]

\* the code cells in document order
Program ==
    InstallCell \o EnvCell \o ImportCell \o ConfigCells \o JastrowCells \o RBMCells
        \o RBMSymmCells \o FFCells \o FF2Cells

Names == {Program[k].var : k \in {j \in DOMAIN Program : Program[j].op = "new"}}

----------------------------------------------------------------------------
(* Interpreter state *)

Cur == Program[pc]

AtStmt(op) == pc \in DOMAIN Program /\ Cur.op = op

\* an interpreter that swallows exceptions and carries on
RunningIgnoresErrors == TRUE

\* no unhandled exception has stopped the script (the notebook has no try/except)
Running == status = "running"

Idle ==
    [active |-> FALSE, run |-> 0, vs |-> 0, out |-> "", n_iter |-> 0, i |-> 0,
     step_count |-> 0, phase |-> "idle", loss |-> 0, batchTheta |-> 0,
     notflushed |-> 0]

Bound(names) == \A k \in DOMAIN names : ns[names[k]] # 0

Resolve(names) == [k \in DOMAIN names |-> ns[names[k]]]

\* an unhandled exception: the script stops at the statement that raised it
Raise ==
    /\ status' = "failed"
    /\ UNCHANGED <<ev, pc, environ, modules, platform, classes, ns, heap, sigma,
                   theta, drv, runs, logmem, files, json, series, plots>>

\* no evaluation of a pure function is under way
NoEval == [kind |-> "none"]

\* the interpreter before the first cell is executed
FreshKernel ==
    /\ pc = 1
    /\ status = "running"
    /\ environ = "unset"
    /\ modules = {}
    /\ platform = "unset"
    /\ classes = {}
    /\ ns = [n \in Names |-> 0]
    /\ heap = <<>>
    /\ sigma = <<>>
    /\ theta = 0
    /\ drv = Idle
    /\ runs = <<>>
    /\ logmem = <<>>
    /\ files = <<>>
    /\ json = <<>>
    /\ series = <<>>
    /\ plots = <<>>

Init ==
    /\ FreshKernel
    /\ ev = NoEval

----------------------------------------------------------------------------
(* Plain statements *)

\* %pip install --quiet netket: the magic runs pip in a subprocess; whether
\* it installs the package or not, no exception reaches the notebook
Magic ==
    /\ Running /\ AtStmt("magic")
    /\ pc' = pc + 1
    /\ UNCHANGED <<ev, status, environ, modules, platform, classes, ns, heap,
                   sigma, theta, drv, runs, logmem, files, json, series, plots>>

\* os.environ["JAX_PLATFORM_NAME"] = "cpu"   (line 77)
SetEnv ==
    /\ Running /\ AtStmt("setenv")
    /\ environ' = Cur.cls
    /\ pc' = pc + 1
    /\ UNCHANGED <<ev, status, modules, platform, classes, ns, heap, sigma, theta,
                   drv, runs, logmem, files, json, series, plots>>

\* import <module>; loading netket fixes the platform from the environment
\* as it is at that moment (lines 76, 98-106, 240-242)
Import ==
    /\ Running /\ AtStmt("import")
    /\ modules' = modules \cup {Cur.var}
    /\ platform' = IF Cur.var = "netket" /\ "netket" \notin modules
                   THEN environ ELSE platform
    /\ pc' = pc + 1
    /\ UNCHANGED <<ev, status, environ, classes, ns, heap, sigma, theta, drv, runs,
                   logmem, files, json, series, plots>>

\* class Jastrow / Model / Model2 (lines 244, 584, 669)
ClassDef ==
    /\ Running /\ AtStmt("classdef")
    /\ classes' = classes \cup {Cur.var}
    /\ pc' = pc + 1
    /\ UNCHANGED <<ev, status, environ, modules, platform, ns, heap, sigma, theta,
                   drv, runs, logmem, files, json, series, plots>>

\* the object a constructor call builds: its class, where it was built, the
\* objects its arguments named at that moment, its numeric arguments
NewObject(st) ==
    [cls |-> st.cls, cell |-> st.cell, line |-> st.line,
     refs |-> Resolve(st.refs), num |-> st.num]

\* name = Class(args...) for every class but MCState
New ==
    /\ Running /\ AtStmt("new") /\ Cur.cls # "MCState"
    /\ IF Bound(Cur.refs)
       THEN /\ heap' = Append(heap, NewObject(Cur))
            /\ ns' = [ns EXCEPT ![Cur.var] = Len(heap) + 1]
            /\ pc' = pc + 1
            /\ UNCHANGED <<ev, status, environ, modules, platform, classes, sigma,
                           theta, drv, runs, logmem, files, json, series, plots>>
       ELSE Raise

\* vs = nk.vqs.MCState(sa, model, n_samples=1008): a fresh variational state
\* with freshly initialised parameters and a sampler state drawn in hi
NewMCState ==
    /\ Running /\ AtStmt("new") /\ Cur.cls = "MCState"
    /\ IF Bound(Cur.refs)
       THEN /\ heap' = Append(heap, NewObject(Cur))
            /\ ns' = [ns EXCEPT ![Cur.var] = Len(heap) + 1]
            /\ sigma' \in random_state
            /\ theta' = 0
            /\ pc' = pc + 1
            /\ UNCHANGED <<ev, status, environ, modules, platform, classes, drv,
                           runs, logmem, files, json, series, plots>>
       ELSE Raise

\* statements with no effect on the modelled state (timing, printing)
Expr ==
    /\ Running /\ AtStmt("expr")
    /\ IF Bound(Cur.refs)
       THEN /\ pc' = pc + 1
            /\ UNCHANGED <<ev, status, environ, modules, platform, classes, ns,
                           heap, sigma, theta, drv, runs, logmem, files, json,
                           series, plots>>
       ELSE Raise

----------------------------------------------------------------------------
(* The optimization driver: gs.run(n_iter, out=...) *)

\* parameter dtype of each ansatz class: complex128 for the notebook's own
\* modules (lines 247, 250, 587, 672, 673), the framework's real default for
\* RBM and RBMSymm (lines 377, 483)
ClassDtype(cls) ==
    IF cls \in {"Jastrow", "Model", "Model2"} THEN "complex" ELSE "real"

\* the objects a driver was given: gs -> (ha, op, sr, vs), vs -> (sa, model)
DriverState(gs) == heap[gs].refs[4]
DriverOptimizer(gs) == heap[gs].refs[2]
StateSampler(vs) == heap[vs].refs[1]
StateModel(vs) == heap[vs].refs[2]

\* the energy estimated for variational state vs from a batch drawn under
\* its parameters after th updates; a complex mean for a complex ansatz
EnergyEstimate(vs, th) ==
    IF ClassDtype(heap[StateModel(vs)].cls) = "complex"
    THEN [cplx |-> TRUE, real |-> vs * 1000 + th, imag |-> -(vs * 1000 + th)]
    ELSE [cplx |-> FALSE, real |-> vs * 1000 + th, imag |-> 0]

\* the logger writes its history every write_every steps (default of run())
write_every == 50

\* the log file of a run: its output name with the .log suffix
LogFileName(out) == out \o ".log"

\* a logger that keeps only the latest record
AppendKeepsLatest(h, rec) == <<rec>>

\* the logger's history grows by one record per call
AppendRecord(h, rec) == Append(h, rec)

\* the serialized history: columns of iterations and of means; a complex mean
\* is written as an object of real and imaginary parts, a real one as a list
Serialize(h) ==
    LET cplx == h # <<>> /\ h[1].Mean.cplx
        re == [k \in DOMAIN h |-> h[k].Mean.real]
        im == [k \in DOMAIN h |-> h[k].Mean.imag]
    IN  [Energy |->
           [iters |-> [k \in DOMAIN h |-> h[k].iter],
            Mean |-> IF cplx
                     THEN [isobj |-> TRUE, real |-> re, imag |-> im,
                           list |-> <<>>]
                     ELSE [isobj |-> FALSE, real |-> <<>>, imag |-> <<>>,
                           list |-> re]]]

\* writing the whole history h to the run's file replaces the file's content
WriteLog(out, h, fs) == (LogFileName(out) :> Serialize(h)) @@ fs

\* a loop that makes one iteration too many
IterDoneOneLate(i, n) == i > n

\* a loop that returns one iteration early
IterDoneOneEarly(i, n) == i + 1 >= n

\* for _ in range(0, n_steps): the loop is over after n_steps iterations
IterDone(i, n) == i >= n

\* run() flushes every logger once the loop is over
FlushAtEnd(out, h, fs) == WriteLog(out, h, fs)

\* the record kept of a gs.run call: its arguments and the objects its driver
\* was given
RunRecord(st) ==
    LET gs == ns[st.var]
        vs == DriverState(gs)
    IN  [out |-> st.cls, n_iter |-> st.num[1], cell |-> st.cell, gs |-> gs,
         vs |-> vs, sampler |-> StateSampler(vs),
         optimizer |-> DriverOptimizer(gs), model |-> StateModel(vs),
         done |-> FALSE]

\* the driver's loop state when run() enters its loop
RunEntry(st) ==
    [Idle EXCEPT !.active = TRUE, !.run = Len(runs) + 1,
                 !.vs = DriverState(ns[st.var]), !.out = st.cls,
                 !.n_iter = st.num[1], !.phase = "fb"]

\* The three steps of one iteration, on the loop state d, the logger's
\* history h, the file system fs and the parameter version th.

\* _forward_and_backward: draw a batch from the sampler under the current
\* parameters, estimate energy and gradient from it, precondition the gradient
StepForwardAndBackward(x) ==
    [x EXCEPT !.d.phase = "log", !.d.batchTheta = x.th,
              !.d.loss = EnergyEstimate(x.d.vs, x.th)]

\* the loop body of run(): the logger is called with the driver's step count
\* and the energy just estimated, and writes its file every write_every calls
StepLog(x) ==
    LET h2 == AppendRecord(x.h, [iter |-> x.d.step_count, Mean |-> x.d.loss])
    IN  IF x.d.notflushed % write_every = 0
        THEN [x EXCEPT !.h = h2, !.fs = WriteLog(x.d.out, h2, x.fs),
                       !.d.phase = "upd", !.d.notflushed = 1]
        ELSE [x EXCEPT !.h = h2, !.d.phase = "upd", !.d.notflushed = @ + 1]

\* back in iter(): the step count advances and the optimizer updates the
\* parameters with the preconditioned gradient
StepUpdate(x) ==
    [x EXCEPT !.th = @ + 1, !.d.phase = "fb", !.d.step_count = @ + 1,
              !.d.i = @ + 1]

\* one pass of the loop: nothing once the loop is over, else one iteration
LoopPass(x) ==
    IF IterDone(x.d.i, x.d.n_iter) THEN x
    ELSE StepUpdate(StepLog(StepForwardAndBackward(x)))

\* k passes of the loop, split in halves (a loop state outside a run is left
\* as it is)
RECURSIVE Passes(_, _)
Passes(x, k) ==
    IF k = 0 \/ ~x.d.active THEN x
    ELSE IF k = 1 THEN LoopPass(x)
    ELSE Passes(Passes(x, k \div 2), k - (k \div 2))

\* the whole loop of run(), from loop state x to the state the loop ends in
\* (passes beyond the end of the loop change nothing)
RunLoop(x) == Passes(x, x.d.n_iter + 1)

\* the loop state of the run in progress
LoopState == [d |-> drv, h |-> logmem[drv.out], fs |-> files, th |-> theta]

\* gs.run(n_iter, out=name): a JsonLog in write mode with an empty history is
\* created for the run, and the iteration loop starts
RunBegin ==
    /\ Running /\ AtStmt("run") /\ ~drv.active
    /\ IF Bound(<<Cur.var>>)
       THEN /\ runs' = Append(runs, RunRecord(Cur))
            /\ logmem' = (Cur.cls :> <<>>) @@ logmem
            /\ drv' = RunEntry(Cur)
            /\ UNCHANGED <<ev, pc, status, environ, modules, platform, classes,
                           ns, heap, sigma, theta, files, json, series, plots>>
       ELSE Raise

\* one iteration, first step: sampling moves the sampler's configuration
ForwardAndBackward ==
    /\ Running /\ drv.active /\ drv.phase = "fb"
    /\ ~IterDone(drv.i, drv.n_iter)
    /\ sigma' \in SampleChain({sigma}, SweepSize)
    /\ drv' = StepForwardAndBackward(LoopState).d
    /\ UNCHANGED <<ev, pc, status, environ, modules, platform, classes, ns, heap,
                   theta, runs, logmem, files, json, series, plots>>

\* one iteration, second step
LogStep ==
    /\ Running /\ drv.active /\ drv.phase = "log"
    /\ LET y == StepLog(LoopState)
       IN  /\ logmem' = [logmem EXCEPT ![drv.out] = y.h]
           /\ files' = y.fs
           /\ drv' = y.d
    /\ UNCHANGED <<ev, pc, status, environ, modules, platform, classes, ns, heap,
                   sigma, theta, runs, json, series, plots>>

\* one iteration, third step
UpdateParameters ==
    /\ Running /\ drv.active /\ drv.phase = "upd"
    /\ LET y == StepUpdate(LoopState)
       IN  /\ theta' = y.th
           /\ drv' = y.d
    /\ UNCHANGED <<ev, pc, status, environ, modules, platform, classes, ns, heap,
                   sigma, runs, logmem, files, json, series, plots>>

\* the loop is over: run() flushes the logger and returns
RunEnd ==
    /\ Running /\ drv.active /\ drv.phase = "fb"
    /\ IterDone(drv.i, drv.n_iter)
    /\ files' = FlushAtEnd(drv.out, logmem[drv.out], files)
    /\ runs' = [runs EXCEPT ![drv.run].done = TRUE]
    /\ drv' = Idle
    /\ pc' = pc + 1
    /\ UNCHANGED <<ev, status, environ, modules, platform, classes, ns, heap,
                   sigma, theta, logmem, json, series, plots>>

\* The loop states in which an exception can stop the run during one pass of
\* the loop begun in loop state x: before the forward/backward pass, before
\* the logger call and before the parameter update, or, once the loop is
\* over, before the final flush.  With the loop state the pass ends in.
PassStops(x) ==
    IF IterDone(x.d.i, x.d.n_iter) THEN [stops |-> {x}, end |-> x]
    ELSE LET a == StepForwardAndBackward(x)
             b == StepLog(a)
         IN  [stops |-> {x, a, b}, end |-> StepUpdate(b)]

\* the same over k passes, split in halves as Passes is
RECURSIVE SpanStops(_, _)
SpanStops(x, k) ==
    IF k = 0 \/ ~x.d.active THEN [stops |-> {}, end |-> x]
    ELSE IF k = 1 THEN PassStops(x)
    ELSE LET l == SpanStops(x, k \div 2)
             r == SpanStops(l.end, k - (k \div 2))
         IN  [stops |-> l.stops \cup r.stops, end |-> r.end]

\* the loop states in which a run entered with loop state x can be stopped
StoppedLoops(x) == SpanStops(x, x.d.n_iter + 1).stops

\* the sampling calls made by a run stopped in loop state y
SamplingCalls(y) == IF y.d.phase = "fb" THEN y.d.i ELSE y.d.i + 1

\* the whole gs.run call as one step: either the loop from its entry to its
\* end, the final flush and the return, or the loop up to the step that
\* raises, which leaves the run unfinished and stops the script
Run ==
    /\ Running /\ AtStmt("run") /\ ~drv.active
    /\ IF Bound(<<Cur.var>>)
       THEN LET x == [d |-> RunEntry(Cur), h |-> <<>>, fs |-> files,
                      th |-> theta]
            IN  \/ LET y == RunLoop(x)
                   IN  /\ runs' = Append(runs,
                                         [RunRecord(Cur) EXCEPT !.done = TRUE])
                       /\ logmem' = (Cur.cls :> y.h) @@ logmem
                       /\ files' = FlushAtEnd(Cur.cls, y.h, y.fs)
                       /\ theta' = y.th
                       /\ sigma' \in SampleChain({sigma},
                                                 SweepSize * Cur.num[1])
                       /\ drv' = Idle
                       /\ pc' = pc + 1
                       /\ UNCHANGED <<ev, status, environ, modules, platform,
                                      classes, ns, heap, json, series, plots>>
                \/ \E y \in StoppedLoops(x) :
                       /\ runs' = Append(runs, RunRecord(Cur))
                       /\ logmem' = (Cur.cls :> y.h) @@ logmem
                       /\ files' = y.fs
                       /\ theta' = y.th
                       /\ sigma' \in SampleChain({sigma},
                                                 SweepSize * SamplingCalls(y))
                       /\ drv' = y.d
                       /\ status' = "failed"
                       /\ UNCHANGED <<ev, pc, environ, modules, platform,
                                      classes, ns, heap, json, series, plots>>
       ELSE Raise

----------------------------------------------------------------------------
(* Reporting: json.load, series extraction, plots *)

\* data = json.load(open(name)): fails when the file does not exist
LoadLog ==
    /\ Running /\ AtStmt("load")
    /\ IF Cur.cls \in DOMAIN files
       THEN /\ json' = (Cur.var :> [file |-> Cur.cls, val |-> files[Cur.cls]])
                          @@ json
            /\ pc' = pc + 1
            /\ UNCHANGED <<ev, status, environ, modules, platform, classes, ns,
                           heap, sigma, theta, drv, runs, logmem, files,
                           series, plots>>
       ELSE Raise

\* the value of data["Energy"][...] for the three access paths the notebook uses
Lookup(val, path) ==
    CASE path = "iters" -> val.Energy.iters
      [] path = "Mean" -> IF val.Energy.Mean.isobj
                          THEN <<val.Energy.Mean.real, val.Energy.Mean.imag>>
                          ELSE val.Energy.Mean.list
      [] path = "Mean.real" -> val.Energy.Mean.real

\* indexing a list with ["real"] raises
LookupOk(val, path) == path = "Mean.real" => val.Energy.Mean.isobj

\* iters_X = data["Energy"]["iters"], energy_X = data["Energy"]["Mean"][...]
GetSeries ==
    /\ Running /\ AtStmt("get")
    /\ IF Cur.refs[1] \in DOMAIN json /\ LookupOk(json[Cur.refs[1]].val, Cur.cls)
       THEN /\ series' = (Cur.var :> [file |-> json[Cur.refs[1]].file,
                                      val |-> Lookup(json[Cur.refs[1]].val, Cur.cls)])
                            @@ series
            /\ pc' = pc + 1
            /\ UNCHANGED <<ev, status, environ, modules, platform, classes, ns,
                           heap, sigma, theta, drv, runs, logmem, files, json,
                           plots>>
       ELSE Raise

\* the ax1.plot(...) calls of a plotting cell
Plot ==
    /\ Running /\ AtStmt("plot")
    /\ IF \A k \in DOMAIN Cur.refs : Cur.refs[k] \in DOMAIN series
       THEN /\ plots' = Append(plots, [cell |-> Cur.cell, curves |-> Cur.refs,
                                       files |-> [k \in DOMAIN Cur.refs |->
                                                    series[Cur.refs[k]].file]])
            /\ pc' = pc + 1
            /\ UNCHANGED <<ev, status, environ, modules, platform, classes, ns,
                           heap, sigma, theta, drv, runs, logmem, files, json,
                           series>>
       ELSE Raise

----------------------------------------------------------------------------
(* Failures of the external framework *)

\* the steps that load a module or call into the framework, the plotting
\* library or the file system, and may raise: any step of a run in progress,
\* and the import, constructor, run, load and plot statements
CanRaise ==
    \/ drv.active /\ drv.phase \in {"fb", "log", "upd"}
    \/ /\ ~drv.active /\ pc \in DOMAIN Program
       /\ Cur.op \in {"import", "new", "run", "load", "plot"}

\* any such step may fail; nothing catches the exception
Fail ==
    /\ Running /\ CanRaise
    /\ Raise

Next ==
    \/ Magic
    \/ SetEnv
    \/ Import
    \/ ClassDef
    \/ New
    \/ NewMCState
    \/ Expr
    \/ RunBegin
    \/ ForwardAndBackward
    \/ LogStep
    \/ UpdateParameters
    \/ RunEnd
    \/ LoadLog
    \/ GetSeries
    \/ Plot
    \/ Fail

Spec == Init /\ [][Next]_vars

\* the notebook cell by cell, every gs.run call taken as one step
NextCells ==
    \/ Magic
    \/ SetEnv
    \/ Import
    \/ ClassDef
    \/ New
    \/ NewMCState
    \/ Expr
    \/ Run
    \/ LoadLog
    \/ GetSeries
    \/ Plot
    \/ Fail

SpecCells == Init /\ [][NextCells]_vars

\* the loop state a run's loop is entered with
EntryOf(k) ==
    [d |-> [Idle EXCEPT !.active = TRUE, !.run = k, !.vs = runs[k].vs,
                        !.out = runs[k].out, !.n_iter = runs[k].n_iter,
                        !.phase = "fb"],
     h |-> <<>>, fs |-> <<>>, th |-> 0]

\* The two specifications agree on a run: when the iteration-by-iteration run
\* has just returned, its history, its file and its parameter version are the
\* ones the one-step run computes.
RunStepsAgree ==
    (~drv.active /\ pc - 1 \in DOMAIN Program /\ Program[pc - 1].op = "run") =>
        LET k == Len(runs)
            y == RunLoop(EntryOf(k))
        IN  /\ runs[k].done
            /\ logmem[runs[k].out] = y.h
            /\ files[LogFileName(runs[k].out)] = Serialize(y.h)
            /\ theta = y.th

----------------------------------------------------------------------------
(* The notebook's own ansaetze as functions of a configuration or a batch   *)
(* (classes Jastrow, Model, Model2: lines 244-257, 584-592, 669-680)        *)

\* Largest number of configurations in a batch handed to an ansatz.
MaxBatch == 2

\* Numbers are kept as the expressions the code evaluates, so that no value
\* is rounded or invented: a literal n / d, a draw of an initializer, a sum, a
\* product, or log cosh of a number.

\* the literal n / d
Lit(n, d) == [fn |-> "lit", l |-> n, r |-> d]

\* the entry at index idx of the array the initializer of parameter name
\* draws from the stream nnx.Rngs(seed)
Drawn(seed, name, idx) == [fn |-> "draw", l |-> <<seed, name>>, r |-> idx]

CAdd(a, b) == [fn |-> "add", l |-> a, r |-> b]

CMul(a, b) == [fn |-> "mul", l |-> a, r |-> b]

\* the sum of a list of numbers, from the first to the last
RECURSIVE CSumFrom(_, _)
CSumFrom(acc, s) ==
    IF s = <<>> THEN acc ELSE CSumFrom(CAdd(acc, Head(s)), Tail(s))

CSum(s) == IF s = <<>> THEN Lit(0, 1) ELSE CSumFrom(Head(s), Tail(s))

\* An array: its number of axes and its entries (a number, a list of numbers,
\* or a list of rows).
Arr(ndim, a) == [ndim |-> ndim, a |-> a]

\* x.astype(jnp.complex128)
astype_complex(x) ==
    IF x.ndim = 1
    THEN Arr(1, [i \in DOMAIN x.a |-> Lit(x.a[i], 1)])
    ELSE Arr(2, [b \in DOMAIN x.a |->
                    [i \in DOMAIN x.a[b] |-> Lit(x.a[b][i], 1)]])

\* sum over i, j of u[i] * M[i][j] * u[j]
QuadForm(u, M) ==
    CSum([i \in DOMAIN u |->
            CSum([j \in DOMAIN u |-> CMul(CMul(u[i], M[i][j]), u[j])])])

\* jnp.einsum('...i,ij,...j->...', x, M, x): the leading axes of x are kept
einsum_quad(x, M) ==
    IF x.ndim = 1
    THEN Arr(0, QuadForm(x.a, M))
    ELSE Arr(1, [b \in DOMAIN x.a |-> QuadForm(x.a[b], M)])

\* one row times a matrix
RowTimes(u, W) ==
    [j \in DOMAIN W[1] |-> CSum([i \in DOMAIN u |-> CMul(u[i], W[i][j])])]

\* x @ W: the last axis of x is contracted with the first axis of W
matmul(x, W) ==
    IF x.ndim = 1
    THEN Arr(1, RowTimes(x.a, W))
    ELSE Arr(2, [b \in DOMAIN x.a |-> RowTimes(x.a[b], W)])

\* jnp.squeeze(x, -1): drop the last axis, which has length one
squeeze_last(x) ==
    IF x.ndim = 1
    THEN Arr(0, x.a[1])
    ELSE Arr(1, [b \in DOMAIN x.a |-> x.a[b][1]])

\* x + y for arrays of the same shape (zero or one axis)
add(x, y) ==
    IF x.ndim = 0
    THEN Arr(0, CAdd(x.a, y.a))
    ELSE Arr(1, [b \in DOMAIN x.a |-> CAdd(x.a[b], y.a[b])])

\* x + bias, the bias vector broadcast along the last axis
add_bias(x, bias) ==
    IF x.ndim = 1
    THEN Arr(1, [j \in DOMAIN x.a |-> CAdd(x.a[j], bias[j])])
    ELSE Arr(2, [b \in DOMAIN x.a |->
                    [j \in DOMAIN x.a[b] |-> CAdd(x.a[b][j], bias[j])]])

\* nnx.Linear: x @ kernel + bias
Linear(x, kernel, bias) == add_bias(matmul(astype_complex(x), kernel), bias)

\* the same on an array that is complex already
LinearC(x, kernel, bias) == add_bias(matmul(x, kernel), bias)

\* log cosh of one number
LogCosh1(z) == [fn |-> "log_cosh", l |-> z, r |-> 0]

\* nk.nn.activation.log_cosh(x): elementwise
log_cosh(x) ==
    IF x.ndim = 1
    THEN Arr(1, [j \in DOMAIN x.a |-> LogCosh1(x.a[j])])
    ELSE Arr(2, [b \in DOMAIN x.a |->
                    [j \in DOMAIN x.a[b] |-> LogCosh1(x.a[b][j])]])

\* a sum over the first axis instead of the last: one entry per column
SumFirstAxis(x) ==
    IF x.ndim = 1
    THEN Arr(0, CSum(x.a))
    ELSE Arr(1, IF x.a = <<>> THEN <<>>
                ELSE [j \in DOMAIN x.a[1] |->
                        CSum([b \in DOMAIN x.a |-> x.a[b][j]])])

\* jnp.sum(x, axis=-1)
sum_last(x) ==
    IF x.ndim = 1
    THEN Arr(0, CSum(x.a))
    ELSE Arr(1, [b \in DOMAIN x.a |-> CSum(x.a[b])])

\* 0.01 * jax.random.normal(k, (n, m), dtype=jnp.complex128)
ScaledNormal(seed, name, n, m) ==
    [i \in 1..n |-> [j \in 1..m |->
        CMul(Lit(1, 100), Drawn(seed, name, <<i, j>>))]]

\* the kernel of an nnx.Linear layer, of shape (n, m), as its initializer
\* draws it
Kernel(seed, name, n, m) ==
    [i \in 1..n |-> [j \in 1..m |-> Drawn(seed, name, <<i, j>>)]]

\* the bias of an nnx.Linear layer, of shape (m,): initialized to zeros
Bias(m) == [j \in 1..m |-> Lit(0, 1)]

\* Jastrow.__init__: J of shape (N, N), v_bias of shape (N, 1)
JastrowParams(N, seed) ==
    [J |-> ScaledNormal(seed, "J", N, N),
     v_bias |-> ScaledNormal(seed, "v_bias", N, 1)]

\* Jastrow.__call__
Jastrow(p, x) ==
    LET xc   == astype_complex(x)
        quad == einsum_quad(xc, p.J)
        lin  == squeeze_last(matmul(xc, p.v_bias))
    IN  add(quad, lin)

\* Model.__init__: one linear layer N -> 2 N
ModelParams(N, seed) ==
    [kernel |-> Kernel(seed, "linear", N, 2 * N), bias |-> Bias(2 * N)]

\* Model.__call__
Model(p, x) == sum_last(log_cosh(Linear(x, p.kernel, p.bias)))

\* Model2.__init__: linear layers N -> 2 N and 2 N -> N
Model2Params(N, seed) ==
    [kernel1 |-> Kernel(seed, "linear1", N, 2 * N), bias1 |-> Bias(2 * N),
     kernel2 |-> Kernel(seed, "linear2", 2 * N, N), bias2 |-> Bias(N)]

\* Model2.__call__
Model2(p, x) ==
    LET h == log_cosh(Linear(x, p.kernel1, p.bias1))
    IN  sum_last(log_cosh(LinearC(h, p.kernel2, p.bias2)))

\* the classes the notebook defines itself
OwnClasses == {"Jastrow", "Model", "Model2"}

\* cls(N=hi.size, rngs=nnx.Rngs(seed))(x)
Apply(cls, seed, x) ==
    IF cls = "Jastrow" THEN Jastrow(JastrowParams(L, seed), x)
    ELSE IF cls = "Model" THEN Model(ModelParams(L, seed), x)
    ELSE Model2(Model2Params(L, seed), x)

\* the configurations handed to an ansatz: those of the Hilbert space hi, of
\* length N = hi.size
Configurations == HilbertStates

\* batches of at most MaxBatch configurations
Batches == UNION {[1..B -> Configurations] : B \in 0..MaxBatch}

\* the seed each class is constructed with: nnx.Rngs(0) for Jastrow (line
\* 277), nnx.Rngs(1) for Model and Model2 (lines 594, 682)
RngsSeed(cls) == IF cls = "Jastrow" THEN 0 ELSE 1

\* the inputs of an ansatz evaluation: a class, the seed of its parameters
\* and a batch
CallInputs ==
    {[kind |-> "call", cls |-> c, seed |-> RngsSeed(c), x |-> X,
      batchDone |-> FALSE, batched |-> Arr(1, <<>>), single |-> <<>>] :
        c \in OwnClasses, X \in Batches}

\* the ansatz applied to the whole batch, an array of shape (B, N)
CallBatch ==
    /\ ev.kind = "call" /\ ~ev.batchDone
    /\ ev' = [ev EXCEPT !.batchDone = TRUE,
                        !.batched = Apply(ev.cls, ev.seed, Arr(2, ev.x))]
    /\ UNCHANGED <<pc, status, environ, modules, platform, classes, ns, heap,
                   sigma, theta, drv, runs, logmem, files, json, series, plots>>

\* then the ansatz applied to the next configuration of the batch alone, an
\* array of shape (N,)
CallSingle ==
    /\ ev.kind = "call" /\ ev.batchDone /\ Len(ev.single) < Len(ev.x)
    /\ ev' = [ev EXCEPT !.single =
                Append(@, Apply(ev.cls, ev.seed, Arr(1, ev.x[Len(@) + 1])))]
    /\ UNCHANGED <<pc, status, environ, modules, platform, classes, ns, heap,
                   sigma, theta, drv, runs, logmem, files, json, series, plots>>

----------------------------------------------------------------------------
(* Parameter counts of the two RBM ansaetze (lines 377 and 483)             *)

\* Largest site count for which the parameters are counted (the notebook's L).
MaxSites == 22

\* Largest hidden-unit density for which the parameters are counted.
MaxAlpha == 2

RECURSIVE Size(_)
\* number of entries of an array of the given shape
Size(shape) == IF shape = <<>> THEN 1 ELSE Head(shape) * Size(Tail(shape))

RECURSIVE TreeSize(_)
\* vs.n_parameters: the entries of all the arrays of a parameter tree
TreeSize(shapes) ==
    IF shapes = <<>> THEN 0 ELSE Size(Head(shapes)) + TreeSize(Tail(shapes))

\* nk.models.RBM(alpha): a dense layer from n sites to alpha * n hidden units
\* with its bias, and a visible bias per site
RBMShapes(alpha, n) == << <<n, alpha * n>>, <<alpha * n>>, <<n>> >>

\* g.translation_group() of the periodic chain of n sites: the cyclic shifts,
\* as permutations of the sites
translation_group(n) ==
    {[i \in 1..n |-> ((i - 1 + t) % n) + 1] : t \in 0..(n - 1)}

\* features computed as alpha * n_sites * n_symm
SymmFeaturesMultiplied(alpha, n, n_symm) == alpha * n * n_symm

\* RBMSymm: features = int(alpha * n_sites / n_symm)
SymmFeatures(alpha, n, n_symm) == (alpha * n) \div n_symm

\* nk.models.RBMSymm(symmetries, alpha): one filter over the sites per
\* feature, one bias per feature, and a single visible bias
RBMSymmShapes(symmetries, alpha, n) ==
    LET features == SymmFeatures(alpha, n, Cardinality(symmetries))
    IN  << <<features, 1, n>>, <<features>>, <<1>> >>

\* the inputs of a parameter count: a density and a site count
CountInputs ==
    {[kind |-> "count", alpha |-> a, N |-> n, done |-> FALSE, rbm |-> 0,
      symm |-> 0] : a \in 1..MaxAlpha, n \in 1..MaxSites}

\* both ansaetze are built for the same alpha and N and their parameters counted
CountParameters ==
    /\ ev.kind = "count" /\ ~ev.done
    /\ ev' = [ev EXCEPT !.done = TRUE,
                        !.rbm = TreeSize(RBMShapes(ev.alpha, ev.N)),
                        !.symm = TreeSize(RBMSymmShapes(translation_group(ev.N),
                                                        ev.alpha, ev.N))]
    /\ UNCHANGED <<pc, status, environ, modules, platform, classes, ns, heap,
                   sigma, theta, drv, runs, logmem, files, json, series, plots>>

----------------------------------------------------------------------------
(* The pure functions on their own: an evaluation is drawn and carried out  *)

InitEval ==
    /\ FreshKernel
    /\ ev \in CallInputs \cup CountInputs

NextEval ==
    \/ CallBatch
    \/ CallSingle
    \/ CountParameters

SpecEval == InitEval /\ [][NextEval]_vars

----------------------------------------------------------------------------
(* Properties *)

Finished == pc = Len(Program) + 1

IsPrefix(a, b) == Len(a) <= Len(b) /\ SubSeq(b, 1, Len(a)) = a

\* C1: whenever a variational state exists, the configuration its sampler
\* holds (and emits as a sample) is a spin configuration of the chain whose
\* site values sum to the configured total magnetization; this holds from the
\* initial configuration on, through every exchange move of every run.
C1_MagnetizationConserved ==
    ns["vs"] # 0 =>
        /\ sigma \in [Sites -> LocalStates]
        /\ SumSeq(sigma) = total_sz

\* the sampler of a run has drawn the samples of a second iteration
C1_Witness ==
    /\ drv.active /\ drv.i >= 1 /\ drv.phase = "log"
    /\ sigma \in HilbertStates

\* the order in which the notebook trains the ansaetze
RunOrder == <<"Jastrow", "RBM", "RBMSymmetric", "FF", "FF2">>

\* C2: the runs are started in the order Jastrow, RBM, RBMSymmetric, FF, FF2;
\* when a run has started, every earlier run has returned with all of its
\* iterations logged; at most one run is in progress.
C2_RunsSequential ==
    /\ Len(runs) <= Len(RunOrder)
    /\ \A k \in DOMAIN runs :
          /\ runs[k].out = RunOrder[k]
          /\ k < Len(runs) =>
                /\ runs[k].done
                /\ Len(logmem[runs[k].out]) = runs[k].n_iter
    /\ drv.active => drv.run = Len(runs) /\ ~runs[drv.run].done
    /\ Cardinality({k \in DOMAIN runs : ~runs[k].done}) <= 1

\* the second run is in progress after the first has returned
C2_Witness ==
    /\ Len(runs) = 2 /\ runs[1].done /\ drv.active /\ drv.run = 2
    /\ drv.i = 2

\* C3 (as stated): the sampler and the optimizer a run's driver was given were
\* constructed in that run's own cell and are given to no other run, and no
\* two runs write the same log file.
C3_ExclusiveOwnership ==
    \A k \in DOMAIN runs :
        /\ heap[runs[k].sampler].cell = runs[k].cell
        /\ heap[runs[k].optimizer].cell = runs[k].cell
        /\ \A j \in DOMAIN runs :
              j # k => /\ runs[j].sampler # runs[k].sampler
                       /\ runs[j].optimizer # runs[k].optimizer
                       /\ LogFileName(runs[j].out) # LogFileName(runs[k].out)

\* C4 (as stated): no ansatz instance is the model of the variational state of
\* more than one run.
C4_AnsatzNotShared ==
    \A j, k \in DOMAIN runs : j # k => runs[j].model # runs[k].model

\* the ansatz class each run is meant to optimise
ExpectedAnsatz ==
    [Jastrow |-> "Jastrow", RBM |-> "RBM", RBMSymmetric |-> "RBMSymm",
     FF |-> "Model", FF2 |-> "Model2"]

\* C5 (as stated): every run optimises the ansatz it is named after, with a
\* sampler and an optimizer constructed for it in its own cell, and no ansatz
\* class is optimised by two runs; the run logged as FF2 optimises Model2.
C5_EachAnsatzOneRun ==
    /\ \A k \in DOMAIN runs :
          /\ heap[runs[k].model].cls = ExpectedAnsatz[runs[k].out]
          /\ heap[runs[k].sampler].cell = runs[k].cell
          /\ heap[runs[k].optimizer].cell = runs[k].cell
    /\ \A j, k \in DOMAIN runs :
          j # k => heap[runs[j].model].cls # heap[runs[k].model].cls

\* one step keeps every record of a history and adds at most one, with a
\* larger iteration index than the last
GrowsByAppend(old, new) ==
    /\ IsPrefix(old, new)
    /\ Len(new) <= Len(old) + 1
    /\ Len(new) = Len(old) + 1 /\ old # <<>> =>
          old[Len(old)].iter < new[Len(new)].iter

\* one step keeps every column entry of a persisted log
FileGrows(old, new) ==
    /\ IsPrefix(old.Energy.iters, new.Energy.iters)
    /\ IsPrefix(old.Energy.Mean.real, new.Energy.Mean.real)
    /\ IsPrefix(old.Energy.Mean.imag, new.Energy.Mean.imag)
    /\ IsPrefix(old.Energy.Mean.list, new.Energy.Mean.list)

LogAppendOnlyStep ==
    /\ \A name \in DOMAIN logmem :
          /\ name \in DOMAIN logmem'
          /\ GrowsByAppend(logmem[name], logmem'[name])
    /\ \A f \in DOMAIN files :
          /\ f \in DOMAIN files'
          /\ FileGrows(files[f], files'[f])
    /\ drv'.active =>
          Len(logmem'[drv'.out]) = drv'.i + (IF drv'.phase = "upd" THEN 1 ELSE 0)

\* C6: every step of every run leaves the records already in any run's log
\* (in memory and on file) in place and unchanged, appends at most one record,
\* with an iteration index larger than the last one's, and the log of the run
\* in progress holds exactly one record per completed iteration.
C6_LogAppendOnly == [][LogAppendOnlyStep]_vars

\* a later run is logging while the first run's complete log is still there
C6_Witness ==
    /\ Len(runs) >= 2 /\ drv.active /\ drv.i >= 2
    /\ Len(logmem["Jastrow"]) = 300
    /\ Len(files["Jastrow.log"].Energy.iters) = 300

\* the configured iteration counts (lines 309, 417, 507, 615, 701)
ExpectedIters ==
    [Jastrow |-> 300, RBM |-> 600, RBMSymmetric |-> 300, FF |-> 300,
     FF2 |-> 600]

\* C7: every run is configured with its iteration count and never logs more
\* records than that; a run in progress that has not failed can always take
\* its next step; and a run that has returned has logged, and persisted,
\* exactly that many records.
C7_ExactIterationCount ==
    /\ \A k \in DOMAIN runs :
          LET r == runs[k] IN
          /\ r.n_iter = ExpectedIters[r.out]
          /\ Len(logmem[r.out]) <= r.n_iter
          /\ r.done =>
                /\ Len(logmem[r.out]) = r.n_iter
                /\ Len(files[LogFileName(r.out)].Energy.iters) = r.n_iter
    /\ drv.active => drv.i <= drv.n_iter
    /\ drv.active /\ Running =>
          ENABLED (ForwardAndBackward \/ LogStep \/ UpdateParameters \/ RunEnd)

\* the first run has returned after its 300 iterations
C7_Witness ==
    /\ Len(runs) = 1 /\ runs[1].done /\ ~drv.active
    /\ Len(logmem["Jastrow"]) = 300
    /\ Len(files["Jastrow.log"].Energy.iters) = 300

\* the get statements executed so far
Executed(op) == {k \in DOMAIN Program : k < pc /\ Program[k].op = op}

\* C9: once the framework is loaded, the platform variable is "cpu", it is the
\* value the framework bound when it was loaded, and it stays so in every
\* later state.
C9_PlatformFixedBeforeLoad ==
    "netket" \in modules => environ = "cpu" /\ platform = "cpu"

\* the notebook has run to its end with the framework loaded
C9_Witness == Finished /\ "netket" \in modules /\ environ = "cpu"

FailureStopsStep ==
    /\ status = "failed" => UNCHANGED vars
    /\ status = "running" /\ status' = "failed" =>
          UNCHANGED <<ev, pc, environ, modules, platform, classes, ns, heap, sigma,
                      theta, drv, runs, logmem, files, json, series, plots>>

\* C10: the step that fails changes nothing but the script's status (it does
\* not complete), and after a failure no step executes: no retry, no further
\* iteration, no later statement.
C10_FailureAborts == [][FailureStopsStep]_vars

\* a run failed in the middle of its iterations
C10_Witness ==
    /\ status = "failed" /\ drv.active /\ drv.i >= 1
    /\ drv.i < drv.n_iter /\ ~runs[drv.run].done

\* the entries of a list in the opposite order
Reverse(s) == [k \in DOMAIN s |-> s[Len(s) + 1 - k]]

\* C11: an ansatz of the notebook (Jastrow, Model, Model2) applied to a batch
\* of B configurations returns exactly B values, the k-th of which is the
\* value the ansatz returns for the k-th configuration alone; the batch in
\* the opposite order returns the same values in the opposite order.
C11_BatchedEvaluation ==
    (ev.kind = "call" /\ ev.batchDone) =>
        /\ ev.batched.ndim = 1
        /\ Len(ev.batched.a) = Len(ev.x)
        /\ \A k \in DOMAIN ev.single :
              /\ ev.single[k].ndim = 0
              /\ ev.batched.a[k] = ev.single[k].a
        /\ Apply(ev.cls, ev.seed, Arr(2, Reverse(ev.x))).a = Reverse(ev.batched.a)

\* a full batch of distinct configurations evaluated both ways, with distinct
\* values
C11_Witness ==
    /\ ev.kind = "call" /\ ev.batchDone /\ ev.cls = "Model2"
    /\ Len(ev.x) = MaxBatch /\ Len(ev.single) = MaxBatch
    /\ ev.batched.a[1] # ev.batched.a[2]

Hyperparameters(k) ==
    [alpha |-> heap[runs[k].model].num[1],
     learning_rate |-> heap[runs[k].optimizer].num[1],
     n_samples |-> heap[runs[k].vs].num[1],
     n_iter |-> runs[k].n_iter]

\* C13 (as stated): the symmetric-RBM run (the third) has the hyperparameters
\* of the RBM run before it (the second): the same alpha, learning rate,
\* number of samples and number of iterations.
C13_SameHyperparameters ==
    Len(runs) >= 3 => Hyperparameters(3) = Hyperparameters(2)

\* the load statements executed so far
Loaded == Executed("load")

\* the run made by the cell before the given cell
RunOfCellBefore(cell) == CHOOSE k \in DOMAIN runs : runs[k].cell = cell - 1

\* C16: every log read so far was read after its run's gs.run call returned
\* and is the file named by the out argument of the run of the cell before
\* the reading cell, with all the records of that run; the data and the
\* series held, and every curve drawn, come from logs of completed runs.
C16_ReadAfterRun ==
    /\ \A k \in Loaded :
          /\ \E r \in DOMAIN runs : runs[r].cell = Program[k].cell - 1
          /\ LET r == RunOfCellBefore(Program[k].cell)
             IN  /\ runs[r].done
                 /\ Program[k].cls = LogFileName(runs[r].out)
                 /\ Len(files[Program[k].cls].Energy.iters) = runs[r].n_iter
    /\ \A v \in DOMAIN json :
          \E r \in DOMAIN runs :
              runs[r].done /\ LogFileName(runs[r].out) = json[v].file
    /\ \A v \in DOMAIN series :
          \E r \in DOMAIN runs :
              runs[r].done /\ LogFileName(runs[r].out) = series[v].file
    /\ \A p \in DOMAIN plots :
          \A c \in DOMAIN plots[p].files :
              \E r \in DOMAIN runs :
                  runs[r].done /\ LogFileName(runs[r].out) = plots[p].files[c]
    /\ drv.active => pc \notin Loaded /\ AtStmt("run")

\* the first plot is drawn: the log of the Jastrow run was read after the run
\* returned, and both curves come from it
C16_Witness ==
    /\ Len(plots) = 1 /\ Len(runs) = 1 /\ runs[1].done
    /\ json["data_Jastrow"].file = "Jastrow.log"
    /\ Len(json["data_Jastrow"].val.Energy.iters) = 300
    /\ plots[1].files = <<"Jastrow.log", "Jastrow.log">>

\* C17: the sampler and the optimizer given to the driver of the last run
\* (logged as FF2) are the very objects given to the driver of the FF run,
\* and neither was constructed in the last run's cell.
C17_FF2ReusesSamplerAndOptimizer ==
    Len(runs) >= 5 =>
        /\ runs[4].out = "FF" /\ runs[5].out = "FF2"
        /\ runs[5].sampler = runs[4].sampler
        /\ runs[5].optimizer = runs[4].optimizer
        /\ heap[runs[5].sampler].cell # runs[5].cell
        /\ heap[runs[5].optimizer].cell # runs[5].cell

\* the last run has been made, with the sampler of line 596 and the optimizer
\* of line 491
C17_Witness ==
    /\ Len(runs) = 5 /\ runs[5].done
    /\ heap[runs[5].sampler].line = 596
    /\ heap[runs[5].optimizer].line = 491

====
